---- MODULE Spec2Model ----
(***************************************************************************)
(* Model of project2.py: the MonitorState singleton, MonitorState.log_event *)
(* the run_simulation coroutine and the handlers of main() that change the  *)
(* monitoring state (select_activity, start_monitoring, stop_monitoring,   *)
(* save_profile_and_continue, route_change, view_pop).                     *)
(*                                                                         *)
(* Numbers.  heart_rate, min_bpm, max_bpm and the readings are kept in     *)
(* thousandths of a bpm (72.0 bpm = 72000), so that round(x, 2) is a real  *)
(* operation (a multiple of 10) and the unrounded re-draw of the boundary  *)
(* branches can be told from a rounded value.  Momentum is kept in tenths  *)
(* (0.9 = 9), fluctuation in tenths of a bpm (0.5 = 5).  avg_bpm is the    *)
(* exact quotient, kept as numerator and denominator.  Binary floating     *)
(* point error is not modelled.                                            *)
(*                                                                         *)
(* Scheduling.  One loop iteration of run_simulation runs from the loop    *)
(* test to "await asyncio.sleep(1)" without suspending, and a handler runs *)
(* to completion: each is one action.                                      *)
(***************************************************************************)
EXTENDS Integers, Sequences, FiniteSets

VARIABLES
    name, height, weight, gender, age,   \* MonitorState profile fields
    activity,                            \* MonitorState.activity
    heart_rate,                          \* MonitorState.heart_rate (1/1000 bpm)
    history,                             \* MonitorState.history: <<tick, bpm>>
    logs,                                \* MonitorState.logs, newest first
    time_counter,                        \* MonitorState.time_counter
    on_update,                           \* MonitorState.on_update is registered
    heart_scale,                         \* MonitorState.heart_scale (tenths)
    min_bpm, max_bpm,                    \* MonitorState.min_bpm / max_bpm
    is_monitoring,                       \* MonitorState.is_monitoring
    total_time,                          \* MonitorState.total_time
    avg_bpm,                             \* MonitorState.avg_bpm, [num, den]
    session_readings,                    \* MonitorState.session_readings
    history_sessions,                    \* MonitorState.history_sessions
    route, views,                        \* page.route, page.views (routes)
    ui,                                  \* texts written by update_ui, and the
                                         \* number of times it has run
    tasks,                               \* live run_simulation coroutines: where
                                         \* each is, the profile it read, whether
                                         \* a stop ran while it slept in its loop
    now,                                 \* datetime.datetime.now(): a logical
                                         \* clock, advanced when a stamp is stored
    starts,                              \* number of accepted start_monitoring
    last,                                \* the command that ran last, if that is
                                         \* start, stop or log_event
    scenario,                            \* which bounded exploration is run
    pre_clamp                            \* heart_rate of the last step after
                                         \* round(), before "Enforce boundaries"

stateVars == <<name, height, weight, gender, age, activity, heart_rate, history,
               logs, time_counter, on_update, heart_scale, min_bpm, max_bpm,
               is_monitoring, total_time, avg_bpm, session_readings,
               history_sessions>>

vars == <<name, height, weight, gender, age, activity, heart_rate, history,
          logs, time_counter, on_update, heart_scale, min_bpm, max_bpm,
          is_monitoring, total_time, avg_bpm, session_readings,
          history_sessions, route, views, ui, tasks, now, starts, last,
          scenario, pre_clamp>>

----------------------------------------------------------------------------
(* Program constants                                                       *)

Milli == 1000

HistoryCap == 60

LogCap == 100

MinSentinel == 999 * Milli

MaxSentinel == 0

InitialHeartRate == 72 * Milli

LowBoundary == 40 * Milli

HighBoundary == 190 * Milli

LowRedrawMax == 45 * Milli

HighRedrawMin == 180 * Milli

activity_profiles ==
    [a \in {"Resting", "Walking", "Running", "Gym", "Swimming"} |->
        CASE a = "Resting"  -> [base_hr |-> 60,  target_range |-> 80,  momentum |-> 9, fluctuation |-> 5]
          [] a = "Walking"  -> [base_hr |-> 90,  target_range |-> 110, momentum |-> 7, fluctuation |-> 10]
          [] a = "Running"  -> [base_hr |-> 130, target_range |-> 160, momentum |-> 4, fluctuation |-> 20]
          [] a = "Gym"      -> [base_hr |-> 110, target_range |-> 140, momentum |-> 5, fluctuation |-> 15]
          [] a = "Swimming" -> [base_hr |-> 100, target_range |-> 130, momentum |-> 6, fluctuation |-> 12]]

default_profile == [base_hr |-> 70, target_range |-> 100, momentum |-> 8, fluctuation |-> 8]

\* activity_profiles.get(monitor_state.activity, (70, 100, 0.8, 0.8))
ProfileOf(a) ==
    IF a \in DOMAIN activity_profiles THEN activity_profiles[a] ELSE default_profile

Routes == {"/profile", "/activity", "/monitor", "/history"}

----------------------------------------------------------------------------
(* Bounds of the explorations                                              *)

\* "app": every handler and profile, short sessions.
MaxTick == 2

\* "window": long sessions that overflow the chart window.
MaxWindowTick == 65

\* steps of a session whose draws are free; later draws take the midpoint
MaxRandomTicks == 1

MaxTasks == 2

MaxStarts == 2

MaxSessions == 2

MaxLogCalls == 103

\* log_event calls whose type is free
MaxFreeLog == 2

\* "range": sessions long enough to approach the limits of the profile bands
MaxRangeTick == 40

----------------------------------------------------------------------------
(* Pure helpers                                                            *)

Min(a, b) == IF a <= b THEN a ELSE b

Max(a, b) == IF a >= b THEN a ELSE b

RECURSIVE Sum(_)
Sum(s) == IF s = <<>> THEN 0 ELSE s[1] + Sum(Tail(s))

RemoveAt(s, i) == SubSeq(s, 1, i - 1) \o SubSeq(s, i + 1, Len(s))

\* n / d rounded to the nearest integer, ties to even (Python's round); d > 0
RoundHalfEven(n, d) ==
    LET q == n \div d
        r == n % d
    IN  IF 2 * r < d THEN q
        ELSE IF 2 * r > d THEN q + 1
        ELSE IF q % 2 = 0 THEN q ELSE q + 1

\* int(x) of a value kept in thousandths: truncation toward zero
IntOf(x) == IF x >= 0 THEN x \div Milli ELSE -((-x) \div Milli)

\* the update without "- monitor_state.heart_rate": no pull toward the target
Smoothed_NoPull(hr, target, noise, p) ==
    10 * hr + target * (10 - p.momentum) + 10 * noise

\* heart_rate + (target_hr - heart_rate) * (1 - momentum) + random_step,
\* as an exact numerator over 10000 (hr, target, noise in thousandths)
Smoothed(hr, target, noise, p) ==
    10 * hr + (target - hr) * (10 - p.momentum) + 10 * noise

\* round(x, 2) of a numerator over 10000; the result is in thousandths
Round2(n) == 10 * RoundHalfEven(n, 100)

\* log_event dropping the newest entry on overflow instead of the oldest
log_event_PopHead(lg, t, message, type) ==
    IF lg # <<>> /\ lg[1].message = message /\ lg[1].type = type
    THEN lg
    ELSE LET ins == <<[time |-> t, message |-> message, type |-> type]>> \o lg
         IN  IF Len(ins) > LogCap THEN Tail(ins) ELSE ins

\* MonitorState.log_event: the new value of logs
log_event(lg, t, message, type) ==
    IF lg # <<>> /\ lg[1].message = message /\ lg[1].type = type
    THEN lg
    ELSE LET ins == <<[time |-> t, message |-> message, type |-> type]>> \o lg
         IN  IF Len(ins) > LogCap THEN SubSeq(ins, 1, Len(ins) - 1) ELSE ins

\* the chart window without the eviction
PushHistory_NoEvict(h, tick, bpm) == Append(h, <<tick, bpm>>)

\* the chart window evicting the newest entry (pop() for pop(0))
PushHistory_PopBack(h, tick, bpm) ==
    LET app == Append(h, <<tick, bpm>>)
    IN  IF Len(app) > HistoryCap THEN SubSeq(app, 1, Len(app) - 1) ELSE app

\* history.append((time_counter, heart_rate)); pop(0) when longer than 60
PushHistory(h, tick, bpm) ==
    LET app == Append(h, <<tick, bpm>>)
    IN  IF Len(app) > HistoryCap THEN Tail(app) ELSE app

\* the text fields update_ui writes; NoText stands for the initial "--"
NoText == -1

update_ui(u, hr, mn, mx, readings, avg) ==
    [hr_text      |-> IntOf(hr),
     min_bpm_text |-> IF mn < MinSentinel THEN IntOf(mn) ELSE u.min_bpm_text,
     max_bpm_text |-> IF mx > 0 THEN IntOf(mx) ELSE u.max_bpm_text,
     avg_bpm_text |-> IF readings # <<>> THEN avg.num \div (avg.den * Milli) ELSE u.avg_bpm_text,
     refreshes    |-> u.refreshes + 1]

\* the views route_change builds for a route
route_change(r) ==
    <<"/profile">>
    \o (IF r \in {"/activity", "/monitor", "/history"} THEN <<"/activity">> ELSE <<>>)
    \o (IF r = "/monitor" THEN <<"/monitor">> ELSE <<>>)
    \o (IF r = "/history" THEN <<"/monitor", "/history">> ELSE <<>>)

\* the SessionSummary stop_monitoring builds
session_data(t, act, total, avg, mx, mn) ==
    [date     |-> t,
     activity |-> act,
     duration |-> <<total \div 60, total % 60>>,
     avg_bpm  |-> RoundHalfEven(avg.num, avg.den * 100),
     max_bpm  |-> IntOf(mx),
     min_bpm  |-> IntOf(mn)]

----------------------------------------------------------------------------
(* Inputs                                                                  *)

TickBound ==
    CASE scenario = "window" -> MaxWindowTick
      [] scenario \in {"range_low", "range_high"} -> MaxRangeTick
      [] OTHER -> MaxTick

\* activities the exploration selects
Selectable ==
    CASE scenario = "window" -> {"Running"}
      [] scenario = "inject" -> {"Resting"}
      [] scenario = "fault" -> {"Resting"}
      [] scenario = "fixture" -> {"Resting"}
      [] scenario = "names" -> {"Resting", "Yoga"}
      [] scenario = "range_low" -> {"Resting", "Walking", "Yoga"}
      [] scenario = "range_high" -> {"Running", "Gym", "Swimming"}
      [] OTHER -> {"Resting", "Running"}

\* coroutines alive at once; the long "range" sessions run one after another
TaskBound == IF scenario \in {"range_low", "range_high"} THEN 1 ELSE MaxTasks

\* UI events are explored during the first MaxTick ticks of a session
UiEnabled == scenario # "log" /\ time_counter <= MaxTick

FreeDraw ==
    /\ scenario \notin {"fixture", "range_low", "range_high"}
    /\ time_counter < MaxRandomTicks

\* random.uniform(base_hr, target_range)
TargetDraws(p) ==
    CASE FreeDraw -> {p.base_hr * Milli, p.target_range * Milli}
      [] ~FreeDraw /\ scenario = "range_low" -> {p.base_hr * Milli}
      [] ~FreeDraw /\ scenario = "range_high" -> {p.target_range * Milli}
      [] OTHER -> {(p.base_hr + p.target_range) * (Milli \div 2)}

\* random.uniform(-fluctuation, fluctuation)
NoiseDraws(p) ==
    CASE FreeDraw -> {-(p.fluctuation * (Milli \div 10)), p.fluctuation * (Milli \div 10)}
      [] ~FreeDraw /\ scenario = "range_low" -> {-(p.fluctuation * (Milli \div 10))}
      [] ~FreeDraw /\ scenario = "range_high" -> {p.fluctuation * (Milli \div 10)}
      [] OTHER -> {0}

\* random.uniform(40, 45) and random.uniform(180, 190); the draw is not rounded
LowRedraws == {LowBoundary, 42125, LowRedrawMax}

HighRedraws == {HighRedrawMin, 184375, HighBoundary}

\* heart_rate values a fixture may set before a session
InjectedRates == {10 * Milli, InitialHeartRate, 250 * Milli}

----------------------------------------------------------------------------
(* Initial states                                                          *)

\* MonitorState.__init__, then main(): on_update registered, page.go(page.route)
InitState(sc, hr) ==
    /\ name = "" /\ height = "" /\ weight = "" /\ gender = "" /\ age = ""
    /\ activity = ""
    /\ heart_rate = hr
    /\ history = <<>>
    /\ logs = <<>>
    /\ time_counter = 0
    /\ on_update = TRUE
    /\ heart_scale = 10
    /\ min_bpm = MinSentinel
    /\ max_bpm = MaxSentinel
    /\ is_monitoring = FALSE
    /\ total_time = 0
    /\ avg_bpm = [num |-> 0, den |-> 1]
    /\ session_readings = <<>>
    /\ history_sessions = <<>>
    /\ route = "/"
    /\ views = route_change("/")
    /\ ui = [hr_text |-> 72, min_bpm_text |-> NoText, max_bpm_text |-> NoText,
             avg_bpm_text |-> NoText, refreshes |-> 0]
    /\ tasks = <<>>
    /\ now = 0
    /\ starts = 0
    /\ last = "init"
    /\ scenario = sc
    /\ pre_clamp = hr

Init == InitState("app", InitialHeartRate)

InitWindow == InitState("window", InitialHeartRate)

InitInject == \E hr \in InjectedRates : InitState("inject", hr)

InitLog == InitState("log", InitialHeartRate)

InitFixture == InitState("fixture", InitialHeartRate)

InitNames == InitState("names", InitialHeartRate)

InitFault == InitState("fault", InitialHeartRate)

InitRange == \E sc \in {"range_low", "range_high"} : InitState(sc, InitialHeartRate)

----------------------------------------------------------------------------
(* Handlers of main()                                                      *)

NoProfile == [base_hr |-> 0, target_range |-> 0, momentum |-> 0, fluctuation |-> 0]

\* page.go(r): sets page.route and runs route_change
Go(r) == route' = r /\ views' = route_change(r)

save_profile_and_continue ==
    /\ UiEnabled
    /\ Len(views) >= 1 /\ views[Len(views)] = "/profile"
    /\ name' = "User" /\ height' = "N/A" /\ weight' = "N/A"
    /\ gender' = "N/A" /\ age' = "N/A"
    /\ Go("/activity")
    /\ last' = "other"
    /\ UNCHANGED <<activity, heart_rate, history, logs, time_counter, on_update,
                   heart_scale, min_bpm, max_bpm, is_monitoring, total_time,
                   avg_bpm, session_readings, history_sessions, ui, tasks, now,
                   starts, scenario, pre_clamp>>

select_activity(activity_name) ==
    /\ UiEnabled
    /\ route = "/activity"
    /\ activity' = activity_name
    /\ last' = "other"
    /\ UNCHANGED <<name, height, weight, gender, age, heart_rate, history, logs,
                   time_counter, on_update, heart_scale, min_bpm, max_bpm,
                   is_monitoring, total_time, avg_bpm, session_readings,
                   history_sessions, route, views, ui, tasks, now, starts,
                   scenario, pre_clamp>>

\* start_monitoring that forgets to clear the logs
StartAccepted_KeepLogs ==
    /\ is_monitoring' = TRUE
    /\ min_bpm' = MinSentinel
    /\ max_bpm' = MaxSentinel
    /\ avg_bpm' = [num |-> 0, den |-> 1]
    /\ total_time' = 0
    /\ session_readings' = <<>>
    /\ history' = <<>>
    /\ time_counter' = 0
    /\ tasks' = Append(tasks, [pc |-> "new", profile |-> NoProfile, stopped |-> FALSE])
    /\ Go("/monitor")
    /\ starts' = starts + 1
    /\ last' = "start"
    /\ UNCHANGED <<name, height, weight, gender, age, activity, heart_rate,
                   logs, on_update, heart_scale, history_sessions, ui, now,
                   scenario, pre_clamp>>

\* start_monitoring that forgets to reset total_time
StartAccepted_KeepTotal ==
    /\ is_monitoring' = TRUE
    /\ min_bpm' = MinSentinel
    /\ max_bpm' = MaxSentinel
    /\ avg_bpm' = [num |-> 0, den |-> 1]
    /\ session_readings' = <<>>
    /\ history' = <<>>
    /\ time_counter' = 0
    /\ logs' = <<>>
    /\ tasks' = Append(tasks, [pc |-> "new", profile |-> NoProfile, stopped |-> FALSE])
    /\ Go("/monitor")
    /\ starts' = starts + 1
    /\ last' = "start"
    /\ UNCHANGED <<name, height, weight, gender, age, activity, heart_rate,
                   total_time, on_update, heart_scale, history_sessions, ui, now,
                   scenario, pre_clamp>>

\* start_monitoring with an activity selected
StartAccepted ==
    /\ is_monitoring' = TRUE
    /\ min_bpm' = MinSentinel
    /\ max_bpm' = MaxSentinel
    /\ avg_bpm' = [num |-> 0, den |-> 1]
    /\ total_time' = 0
    /\ session_readings' = <<>>
    /\ history' = <<>>
    /\ time_counter' = 0
    /\ logs' = <<>>
    /\ tasks' = Append(tasks, [pc |-> "new", profile |-> NoProfile, stopped |-> FALSE])
    /\ Go("/monitor")
    /\ starts' = starts + 1
    /\ last' = "start"
    /\ UNCHANGED <<name, height, weight, gender, age, activity, heart_rate,
                   on_update, heart_scale, history_sessions, ui, now, scenario, pre_clamp>>

\* start_monitoring with no activity selected: the body is skipped
StartIgnored ==
    /\ last' = "start_ignored"
    /\ UNCHANGED <<name, height, weight, gender, age, activity, heart_rate,
                   history, logs, time_counter, on_update, heart_scale, min_bpm,
                   max_bpm, is_monitoring, total_time, avg_bpm, session_readings,
                   history_sessions, route, views, ui, tasks, now, starts,
                   scenario, pre_clamp>>

start_monitoring ==
    /\ UiEnabled
    /\ route = "/activity"
    /\ Len(tasks) < TaskBound
    /\ starts < MaxStarts
    /\ IF activity # "" THEN StartAccepted ELSE StartIgnored

\* stop_monitoring summarising a session whatever it recorded
HasReadings_Always(readings) == TRUE

\* "if monitor_state.session_readings:" of stop_monitoring
HasReadings(readings) == readings # <<>>

\* the coroutines suspended in their loop when stop_monitoring runs
MarkStopped(ts) ==
    [i \in 1..Len(ts) |->
        IF ts[i].pc = "sleep" THEN [ts[i] EXCEPT !.stopped = TRUE] ELSE ts[i]]

stop_monitoring ==
    /\ UiEnabled
    /\ route = "/monitor"
    /\ HasReadings(session_readings) => Len(history_sessions) < MaxSessions
    /\ is_monitoring' = FALSE
    /\ IF HasReadings(session_readings)
       THEN /\ history_sessions' =
                  Append(history_sessions,
                         session_data(now, activity, total_time, avg_bpm,
                                      max_bpm, min_bpm))
            /\ now' = now + 1
       ELSE UNCHANGED <<history_sessions, now>>
    /\ tasks' = MarkStopped(tasks)
    /\ Go("/activity")
    /\ last' = "stop"
    /\ UNCHANGED <<name, height, weight, gender, age, activity, heart_rate,
                   history, logs, time_counter, on_update, heart_scale, min_bpm,
                   max_bpm, total_time, avg_bpm, session_readings, ui,
                   starts, scenario, pre_clamp>>

\* the back arrows of the activity and history pages
go_back ==
    /\ UiEnabled
    /\ route \in {"/activity", "/history"}
    /\ Go(IF route = "/activity" THEN "/profile" ELSE "/activity")
    /\ last' = "other"
    /\ UNCHANGED <<stateVars, ui, tasks, now, starts, scenario, pre_clamp>>

\* the platform's back navigation
view_pop ==
    /\ UiEnabled
    /\ Len(views) >= 2
    /\ Go(views[Len(views) - 1])
    /\ last' = "other"
    /\ UNCHANGED <<stateVars, ui, tasks, now, starts, scenario, pre_clamp>>

\* the client changes the route (address bar, deep link)
navigate(r) ==
    /\ UiEnabled
    /\ r # route
    /\ Go(r)
    /\ last' = "other"
    /\ UNCHANGED <<stateVars, ui, tasks, now, starts, scenario, pre_clamp>>

----------------------------------------------------------------------------
(* run_simulation                                                          *)

\* the profile looked up again in every iteration
TaskProfile_Reread(i) == ProfileOf(activity)

\* the profile a coroutine steps with: read when it first runs
TaskProfile(i) ==
    IF tasks[i].pc = "new" THEN ProfileOf(activity) ELSE tasks[i].profile

\* step 4 without the upper branch
Enforced_NoCeiling(rounded) ==
    IF rounded < LowBoundary THEN LowRedraws ELSE {rounded}

\* step 4, "Enforce boundaries": the values heart_rate can take
Enforced(rounded) ==
    IF rounded < LowBoundary THEN LowRedraws
    ELSE IF rounded > HighBoundary THEN HighRedraws
    ELSE {rounded}

\* step 4 with the log_event call of the upper branch left out
BoundaryLogs_NoHighLog(lg, t, rounded, hr) ==
    IF rounded < LowBoundary
    THEN log_event(lg, t, <<"Low HR boundary hit", IntOf(hr)>>, "ALERT")
    ELSE lg

\* step 4: the logs after the boundary branch that ran, if any
BoundaryLogs(lg, t, rounded, hr) ==
    IF rounded < LowBoundary
    THEN log_event(lg, t, <<"Low HR boundary hit", IntOf(hr)>>, "ALERT")
    ELSE IF rounded > HighBoundary
    THEN log_event(lg, t, <<"High HR boundary hit", IntOf(hr)>>, "ALERT")
    ELSE lg

\* the average taken before the new reading is appended
Average_Stale(readings) ==
    [num |-> Sum(readings) - readings[Len(readings)], den |-> Len(readings)]

\* step 5: avg_bpm = sum(session_readings) / len(session_readings)
Average(readings) == [num |-> Sum(readings), den |-> Len(readings)]

\* the callback run before the step has written its values
Refresh_BeforeWrites(u, hr, mn, mx, readings, avg) ==
    IF on_update
    THEN update_ui(u, heart_rate, min_bpm, max_bpm, session_readings, avg_bpm)
    ELSE u

\* step 8: "if monitor_state.on_update: monitor_state.on_update()"
Refresh(u, hr, mn, mx, readings, avg) ==
    IF on_update THEN update_ui(u, hr, mn, mx, readings, avg) ELSE u

\* the exception caught inside the loop: the coroutine sleeps and goes on
AfterFault_Retry(ts, i) == [ts EXCEPT ![i].pc = "sleep"]

\* the coroutine after an exception left the loop: "except Exception" returns
AfterFault(ts, i) == RemoveAt(ts, i)

\* one iteration of the while loop with is_monitoring true; faulted: the
\* callback of step 8 raises
StepWrites(i, faulted) ==
    /\ scenario # "log"
    /\ i \in 1..Len(tasks)
    /\ is_monitoring
    /\ time_counter < TickBound
    /\ LET p == TaskProfile(i) IN
       \E target_hr \in TargetDraws(p), random_step \in NoiseDraws(p) :
         LET rounded == Round2(Smoothed(heart_rate, target_hr, random_step, p)) IN
         \E hr \in Enforced(rounded) :
           LET readings == Append(session_readings, hr)
               mn == Min(min_bpm, hr)
               mx == Max(max_bpm, hr)
               avg == IF readings # <<>> THEN Average(readings) ELSE avg_bpm
           IN
           /\ heart_rate' = hr
           /\ logs' = BoundaryLogs(logs, now, rounded, hr)
           /\ now' = IF BoundaryLogs(logs, now, rounded, hr) # logs THEN now + 1 ELSE now
           /\ min_bpm' = mn
           /\ max_bpm' = mx
           /\ session_readings' = readings
           /\ avg_bpm' = avg
           /\ time_counter' = time_counter + 1
           /\ total_time' = total_time + 1
           /\ history' = PushHistory(history, time_counter + 1, hr)
           /\ heart_scale' = IF heart_scale = 10 THEN 12 ELSE 10
           /\ ui' = IF faulted THEN ui ELSE Refresh(ui, hr, mn, mx, readings, avg)
           /\ tasks' = IF faulted THEN AfterFault(tasks, i)
                       ELSE [tasks EXCEPT ![i] = [pc |-> "sleep", profile |-> p,
                                                  stopped |-> tasks[i].stopped]]
           /\ pre_clamp' = rounded
           /\ last' = IF faulted THEN "fault" ELSE "other"
    /\ UNCHANGED <<name, height, weight, gender, age, activity, on_update,
                   is_monitoring, history_sessions, route, views, starts,
                   scenario>>

SimulationStep(i) == StepWrites(i, FALSE)

\* an iteration whose callback raises: caught outside the loop
SimulationFault(i) == scenario = "fault" /\ StepWrites(i, TRUE)

\* a test fixture writes monitor_state.heart_rate between two steps
inject_heart_rate(hr) ==
    /\ scenario = "fixture"
    /\ UiEnabled
    /\ is_monitoring
    /\ hr # heart_rate
    /\ heart_rate' = hr
    /\ last' = "other"
    /\ UNCHANGED <<name, height, weight, gender, age, activity, history, logs,
                   time_counter, on_update, heart_scale, min_bpm, max_bpm,
                   is_monitoring, total_time, avg_bpm, session_readings,
                   history_sessions, route, views, ui, tasks, now, starts,
                   scenario, pre_clamp>>

\* the loop test with is_monitoring false: the coroutine returns
SimulationExit(i) ==
    /\ scenario # "log"
    /\ i \in 1..Len(tasks)
    /\ ~is_monitoring
    /\ tasks' = RemoveAt(tasks, i)
    /\ last' = "other"
    /\ UNCHANGED <<stateVars, route, views, ui, now, starts, scenario, pre_clamp>>

----------------------------------------------------------------------------
(* log_event on its own                                                    *)

LogMessages == {<<"Low HR boundary hit", 40>>, <<"High HR boundary hit", 180>>}

LogTypes == IF now < MaxFreeLog THEN {"ALERT", "INFO"} ELSE {"ALERT"}

LogEventCall(message, type) ==
    /\ scenario = "log"
    /\ now < MaxLogCalls
    /\ logs' = log_event(logs, now, message, type)
    /\ now' = IF logs' # logs THEN now + 1 ELSE now
    /\ last' = IF logs' # logs THEN "log_event" ELSE "log_duplicate"
    /\ UNCHANGED <<name, height, weight, gender, age, activity, heart_rate,
                   history, time_counter, on_update, heart_scale, min_bpm,
                   max_bpm, is_monitoring, total_time, avg_bpm, session_readings,
                   history_sessions, route, views, ui, tasks, starts, scenario, pre_clamp>>

----------------------------------------------------------------------------
(* Specifications                                                          *)

Next ==
    \/ save_profile_and_continue
    \/ \E a \in Selectable : select_activity(a)
    \/ start_monitoring
    \/ stop_monitoring
    \/ go_back
    \/ view_pop
    \/ \E r \in Routes : navigate(r)
    \/ \E i \in 1..MaxTasks : SimulationStep(i)
    \/ \E i \in 1..MaxTasks : SimulationExit(i)

NextLog == \E m \in LogMessages, t \in LogTypes : LogEventCall(m, t)

Spec == Init /\ [][Next]_vars

SpecWindow == InitWindow /\ [][Next]_vars

SpecInject == InitInject /\ [][Next]_vars

SpecLog == InitLog /\ [][NextLog]_vars

NextFixture ==
    Next \/ \E hr \in InjectedRates \ {InitialHeartRate} : inject_heart_rate(hr)

SpecFixture == InitFixture /\ [][NextFixture]_vars

NextFault == Next \/ \E i \in 1..MaxTasks : SimulationFault(i)

SpecFault == InitFault /\ [][NextFault]_vars

SpecRange == InitRange /\ [][Next]_vars

SpecNames == InitNames /\ [][Next]_vars

----------------------------------------------------------------------------
(* Properties                                                              *)

AnyStep == \E i \in 1..MaxTasks : SimulationStep(i)

\* C1: every completed simulation step leaves heart_rate within [40, 190],
\* whatever heart_rate, profile and draws the step started from.
C1_HeartRateInRange ==
    [][AnyStep => (LowBoundary <= heart_rate' /\ heart_rate' <= HighBoundary)]_vars

\* a step whose smoothed value was above 190 has run and left the ceiling value
C1_Witness ==
    /\ time_counter = 1
    /\ Len(logs) = 1 /\ logs[1].message[1] = "High HR boundary hit"
    /\ heart_rate = HighBoundary

\* C2: once a session has readings, min_bpm is at most every reading, max_bpm
\* is at least every reading, and avg_bpm is their sum over their number.
C2_SessionStats ==
    session_readings # <<>> =>
        /\ \A k \in 1..Len(session_readings) :
              min_bpm <= session_readings[k] /\ session_readings[k] <= max_bpm
        /\ avg_bpm.den > 0
        /\ avg_bpm.num * Len(session_readings) = Sum(session_readings) * avg_bpm.den

\* five ticks into a second session, with distinct minimum and maximum
C2_Witness ==
    /\ history_sessions # <<>>
    /\ starts = 2
    /\ is_monitoring
    /\ Len(session_readings) = 5
    /\ min_bpm < max_bpm

\* C3: history never has more than 60 entries and the ticks of adjacent
\* entries differ by exactly 1.
C3_HistoryWindow ==
    /\ Len(history) <= HistoryCap
    /\ \A k \in 1..(Len(history) - 1) : history[k + 1][1] = history[k][1] + 1

\* a full window after evictions, in a session that followed a stop
C3_Witness ==
    /\ Len(history) = HistoryCap
    /\ history[1][1] > 1
    /\ history_sessions # <<>>

\* C4: after n steps of a session history is the last min(n, 60) pairs
\* (tick, bpm): ticks n-min(n,60)+1 .. n with the readings of those ticks.
C4_HistoryIsRecentReadings ==
    LET n == Len(session_readings)
        k == Min(n, HistoryCap)
    IN  /\ Len(history) = k
        /\ \A j \in 1..k :
              history[j] = <<n - k + j, session_readings[n - k + j]>>

\* 65 steps: ticks 1..5 are gone, ticks 6..65 remain
C4_Witness ==
    /\ Len(session_readings) = 65
    /\ Len(history) = 60
    /\ history[1][1] = 6
    /\ history[60][1] = 65

IsDuplicate(message, type) ==
    logs # <<>> /\ logs[1].message = message /\ logs[1].type = type

LogShape(lg) ==
    /\ Len(lg) <= LogCap
    /\ Len(lg) >= 2 => ~(lg[1].message = lg[2].message /\ lg[1].type = lg[2].type)

\* C5: after any sequence of log_event calls logs has at most 100 entries and
\* its first two entries differ in message or type; a call that duplicates the
\* head leaves logs unchanged; a call on a full log puts the new entry first
\* and keeps all but the oldest (last) entry.
C5_LogBounded ==
    /\ []LogShape(logs)
    /\ [][\A m \in LogMessages, t \in {"ALERT", "INFO"} :
            LogEventCall(m, t) =>
              /\ IsDuplicate(m, t) => logs' = logs
              /\ (~IsDuplicate(m, t) /\ Len(logs) = LogCap) =>
                    /\ Len(logs') = LogCap
                    /\ logs'[1].message = m /\ logs'[1].type = t
                    /\ SubSeq(logs', 2, LogCap) = SubSeq(logs, 1, LogCap - 1)]_vars

\* a duplicate call on a full log that has already overflowed
C5_Witness ==
    /\ Len(logs) = LogCap
    /\ now > LogCap
    /\ last = "log_duplicate"

\* C6: a stop with no reading recorded appends no summary and clears
\* is_monitoring.
C6_EmptyStop ==
    [][(stop_monitoring /\ session_readings = <<>>) =>
          (history_sessions' = history_sessions /\ ~is_monitoring')]_vars

\* a session stopped before its first step
C6_Witness ==
    /\ last = "stop"
    /\ starts = 1
    /\ session_readings = <<>>
    /\ history_sessions = <<>>
    /\ ~is_monitoring

\* C7: history_sessions never has more entries than there were accepted
\* starts.
C7_OneSummaryPerSession == Len(history_sessions) <= starts

\* C8: an accepted start resets the statistics, readings, history, counters
\* and logs, sets is_monitoring, launches one task and keeps history_sessions;
\* a start with no activity changes nothing.
C8_StartResets ==
    [][start_monitoring =>
          IF activity # ""
          THEN /\ min_bpm' = MinSentinel /\ max_bpm' = MaxSentinel
               /\ avg_bpm'.num = 0
               /\ total_time' = 0 /\ time_counter' = 0
               /\ session_readings' = <<>> /\ history' = <<>> /\ logs' = <<>>
               /\ is_monitoring'
               /\ Len(tasks') = Len(tasks) + 1
               /\ tasks'[Len(tasks')].pc = "new"
               /\ history_sessions' = history_sessions
          ELSE UNCHANGED <<stateVars, route, views, ui, tasks, now, starts>>]_vars

\* a start after a recorded session
C8_Witness ==
    /\ last = "start"
    /\ history_sessions # <<>>
    /\ is_monitoring
    /\ session_readings = <<>> /\ history = <<>> /\ time_counter = 0
    /\ tasks # <<>>

\* a start with no activity selected has run
C8_WitnessIgnored == last = "start_ignored" /\ activity = "" /\ tasks = <<>>

\* C9: a start issued while is_monitoring is true changes neither the
\* statistics, history and logs of the running session nor the set of tasks.
C9_StartWhileMonitoring ==
    [][(start_monitoring /\ is_monitoring) =>
          UNCHANGED <<min_bpm, max_bpm, avg_bpm, total_time, time_counter,
                      session_readings, history, logs, tasks>>]_vars

\* C10: at most one run_simulation coroutine is inside its loop at any time.
C10_SingleTask ==
    Cardinality({i \in 1..Len(tasks) : tasks[i].pc = "sleep"}) <= 1

\* C11: a coroutine that slept in its loop while stop_monitoring ran executes
\* no further step.
C11_NoStepAfterStop ==
    [][\A i \in 1..MaxTasks : SimulationStep(i) => ~tasks[i].stopped]_vars

\* C15: each step runs the refresh callback once, after its writes: the last
\* history entry is (time_counter, heart_rate), the last reading is heart_rate,
\* and the texts the callback wrote are those of the step's own values.
C15_RefreshAfterWrites ==
    [][AnyStep =>
          /\ ui'.refreshes = ui.refreshes + 1
          /\ history'[Len(history')] = <<time_counter', heart_rate'>>
          /\ session_readings'[Len(session_readings')] = heart_rate'
          /\ ui'.hr_text = IntOf(heart_rate')
          /\ ui'.min_bpm_text = IntOf(min_bpm')
          /\ ui'.max_bpm_text = IntOf(max_bpm')
          /\ ui'.avg_bpm_text * Milli * avg_bpm'.den <= avg_bpm'.num
          /\ avg_bpm'.num < (ui'.avg_bpm_text + 1) * Milli * avg_bpm'.den]_vars

\* two coroutines have stepped in one session and the callback ran each time
C15_Witness ==
    /\ Len(tasks) = 2
    /\ \A i \in 1..Len(tasks) : tasks[i].pc = "sleep"
    /\ time_counter = 2
    /\ ui.refreshes >= 2
    /\ ui.hr_text = IntOf(heart_rate)

\* C16: time_counter, total_time and the number of readings are equal, history
\* holds min(60, time_counter) entries and its last tick is time_counter.
C16_CountersAgree ==
    /\ time_counter = total_time
    /\ total_time = Len(session_readings)
    /\ Len(history) = Min(HistoryCap, time_counter)
    /\ history # <<>> => history[Len(history)][1] = time_counter

\* a second session past the window size, with two coroutines stepping
C16_Witness ==
    /\ starts = 2
    /\ Len(tasks) = 2
    /\ time_counter = 61
    /\ total_time = 61
    /\ Len(history) = HistoryCap

\* C12 as stated: a step whose rounded value is below 40 ends in [40, 45]
\* and makes logs one longer with an ALERT head; above 190 it ends in
\* [180, 190] likewise; a value within [40, 190] leaves logs unchanged.
C12_OneAlertPerHit ==
    [][AnyStep =>
          /\ pre_clamp' < LowBoundary =>
                /\ LowBoundary <= heart_rate' /\ heart_rate' <= LowRedrawMax
                /\ Len(logs') = Len(logs) + 1 /\ logs'[1].type = "ALERT"
          /\ pre_clamp' > HighBoundary =>
                /\ HighRedrawMin <= heart_rate' /\ heart_rate' <= HighBoundary
                /\ Len(logs') = Len(logs) + 1 /\ logs'[1].type = "ALERT"
          /\ (LowBoundary <= pre_clamp' /\ pre_clamp' <= HighBoundary) =>
                logs' = logs]_vars

\* logs after one ALERT call with message m: unchanged when the head already
\* is that ALERT, else m first, then the old entries (all but the oldest of a
\* full log)
AlertLogged(m) ==
    IF IsDuplicate(m, "ALERT")
    THEN logs' = logs
    ELSE /\ Len(logs') = Min(Len(logs) + 1, LogCap)
         /\ logs'[1].type = "ALERT" /\ logs'[1].message = m
         /\ SubSeq(logs', 2, Len(logs')) = SubSeq(logs, 1, Len(logs') - 1)

\* C12 amended: a step whose rounded value is below 40 ends in [40, 45] and
\* calls log_event once with the ALERT naming int(heart_rate): one ALERT entry
\* is prepended unless the head already is that entry; above 190 it ends in
\* [180, 190] likewise; a value within [40, 190] leaves logs unchanged.
C12_OneAlertCallPerHit ==
    [][AnyStep =>
          /\ pre_clamp' < LowBoundary =>
                /\ LowBoundary <= heart_rate' /\ heart_rate' <= LowRedrawMax
                /\ AlertLogged(<<"Low HR boundary hit", IntOf(heart_rate')>>)
          /\ pre_clamp' > HighBoundary =>
                /\ HighRedrawMin <= heart_rate' /\ heart_rate' <= HighBoundary
                /\ AlertLogged(<<"High HR boundary hit", IntOf(heart_rate')>>)
          /\ (LowBoundary <= pre_clamp' /\ pre_clamp' <= HighBoundary) =>
                logs' = logs]_vars

\* two steps of one session were below 40 and re-drawn to 40: one entry
C12_Witness ==
    /\ pre_clamp < LowBoundary
    /\ session_readings = <<LowBoundary, LowBoundary>>
    /\ Len(logs) = 1
    /\ logs[1].type = "ALERT"

\* C13: when the callback of a step raises, the coroutine ends without another
\* iteration, is_monitoring stays true and the writes of the step are kept.
C13_FaultEndsTask ==
    [][\A i \in 1..MaxTasks : SimulationFault(i) =>
          /\ is_monitoring'
          /\ Len(tasks') = Len(tasks) - 1
          /\ tasks' = SubSeq(tasks, 1, i - 1) \o SubSeq(tasks, i + 1, Len(tasks))
          /\ time_counter' = time_counter + 1
          /\ total_time' = total_time + 1
          /\ session_readings' = Append(session_readings, heart_rate')
          /\ history'[Len(history')] = <<time_counter', heart_rate'>>]_vars

\* the only coroutine faulted in its first step: monitoring with no task
C13_Witness ==
    /\ last = "fault"
    /\ is_monitoring
    /\ tasks = <<>>
    /\ time_counter = 1
    /\ Len(session_readings) = 1

\* C14: every step of a coroutine uses the profile of its first iteration,
\* whatever activity is by then, and a coroutine that first runs with an
\* activity outside the five names uses (70, 100, 0.8, 0.8).
C14_ProfileFixed ==
    [][\A i \in 1..MaxTasks : SimulationStep(i) =>
          LET p == IF tasks[i].pc = "sleep" THEN tasks[i].profile
                   ELSE IF activity \in {"Resting", "Walking", "Running", "Gym", "Swimming"}
                   THEN activity_profiles[activity]
                   ELSE [base_hr |-> 70, target_range |-> 100,
                         momentum |-> 8, fluctuation |-> 8]
          IN  /\ tasks'[i].profile = p
              /\ pre_clamp' \in {Round2(Smoothed(heart_rate, t, n, p)) :
                                   t \in TargetDraws(p), n \in NoiseDraws(p)}]_vars

\* a coroutine started under Resting and one started under an unknown name
\* have both stepped while activity is the unknown name
C14_Witness ==
    /\ Len(tasks) = 2
    /\ tasks[1].pc = "sleep" /\ tasks[1].profile = activity_profiles["Resting"]
    /\ tasks[2].pc = "sleep" /\ tasks[2].profile = default_profile
    /\ activity = "Yoga"
    /\ time_counter = 2

\* C17: from 72.0 the rounded value of every step is within [40, 190], so logs
\* stays empty, and heart_rate stays within [55, 164].
C17_BandsNeverBreached ==
    /\ logs = <<>>
    /\ LowBoundary <= pre_clamp /\ pre_clamp <= HighBoundary
    /\ 55 * Milli <= heart_rate /\ heart_rate <= 164 * Milli

\* a later session has come within 1 bpm of the lower limit
C17_Witness ==
    /\ starts = 2
    /\ history_sessions # <<>>
    /\ heart_rate < 56 * Milli
    /\ logs = <<>>

\* a session has come within 1 bpm of the upper limit
C17_WitnessHigh == heart_rate > 163 * Milli /\ logs = <<>>

====
